---- MODULE Spec2Model ----
(***************************************************************************)
(* The quiz game of src/game.py: the QuizGUI controller (question          *)
(* navigation, answer recording, scoring) and the JSON score file          *)
(* (load_scores / save_score / leaderboard ranking).                       *)
(*                                                                         *)
(* Every Tk callback is one action.  An exception raised inside a callback *)
(* is caught by Tk's mainloop (report_callback_exception): the handler     *)
(* stops where it raised, the assignments made before stay, and the window *)
(* keeps the widgets it had.                                               *)
(***************************************************************************)
EXTENDS Integers, Sequences, FiniteSets, TLC

\* ------------------------------------------------------------------ bounds
MaxQuestions == 2      \* questions handed to QuizGUI: 0..MaxQuestions
NumOptions == 2        \* options of every question
MaxClock == 1          \* clock readings: 1..MaxClock + 1 ticks
MaxEntries == 2        \* entries the score file is left to grow to
MaxOver == 1           \* how far current_index is followed past the last question
TickMs == 6            \* length of one clock tick, in milliseconds
MaxShort == 3          \* leaderboard inputs: every sequence of up to MaxShort entries
MaxBeyond == 2         \* leaderboard inputs: up to MaxBeyond entries past the limit

\* --------------------------------------------------------------- constants
UNSELECTED == -1       \* tk.IntVar(value=-1), answers.get(i, -1)
LeaderboardLimit == 25 \* scores_sorted[:25]

\* None, and a float t as <<t>>
None == <<>>
Player == <<"P", "l", "a", "y", "e", "r">>

VARIABLES
    questions,        \* self.questions: the shuffled copy
    current_index,    \* self.current_index
    correct,          \* self.correct
    username,         \* self.username (tk.StringVar), a sequence of characters
    selected_option,  \* self.selected_option (tk.IntVar)
    start_time,       \* self.start_time: None or a perf_counter reading
    answers,          \* self.answers: dict position -> option
    screen,           \* the widgets of self.root: which screen was built last
    shown,            \* position of the question the question screen was built for
    messagebox,       \* the modal messagebox.showinfo dialog, "" when none
    listbox,          \* the lines of the leaderboard Listbox
    scores_file,      \* quiz_scores.json on disk
    clock,            \* the last reading of time.perf_counter(), in ticks
    event,            \* history: the callback that ran last
    phase,            \* history: status of the session started last
    file_at_start,    \* history: scores_file when the session was started
    last_save,        \* history: arguments and outcome of the last save_score call
    before,           \* history: the state the last submit/previous/finish found
    submitted         \* history: per position, the option submitted there and not
                      \* replaced by another choice of the user since

vars == <<questions, current_index, correct, username, selected_option, start_time,
          answers, screen, shown, messagebox, listbox, scores_file, clock,
          event, phase, file_at_start, last_save, before, submitted>>

\* ------------------------------------------------------------------ helpers
Range(s) == {s[i] : i \in DOMAIN s}

Max(a, b) == IF a >= b THEN a ELSE b

\* dict.get(key, default)
Get(d, key, default) == IF key \in DOMAIN d THEN d[key] ELSE default

\* d[key] = value
Put(d, key, value) == [k \in DOMAIN d \cup {key} |-> IF k = key THEN value ELSE d[k]]

EmptyDict == [k \in {} |-> UNSELECTED]

RECURSIVE Gcd(_, _)
Gcd(a, b) == IF b = 0 THEN a ELSE Gcd(b, a % b)

\* ---------------------------------------------------------------- Question
Options == [i \in 1..NumOptions |-> i - 1]

Question(prompt, answer_index) ==
    [prompt |-> prompt, options |-> Options, answer_index |-> answer_index]

\* The lists a caller may hand to QuizGUI (sample_questions): n questions with
\* prompts 1..n, each with a valid answer index; neighbours differ in it.
SuppliedQuestions ==
    {[j \in 1..n |-> Question(j, j % NumOptions)] : n \in 0..MaxQuestions}

\* random.shuffle of a copy: any permutation of the list.
Shuffle(qs) ==
    {[i \in 1..Len(qs) |-> qs[p[i]]] :
        p \in {f \in [1..Len(qs) -> 1..Len(qs)] : Range(f) = 1..Len(qs)}}

\* ---------------------------------------------------------------- username
Names == {<<" ">>, <<" ", "A">>}

RECURSIVE LStrip(_)
LStrip(s) == IF s # <<>> /\ Head(s) = " " THEN LStrip(Tail(s)) ELSE s

RECURSIVE RStrip(_)
RStrip(s) == IF s # <<>> /\ s[Len(s)] = " " THEN RStrip(SubSeq(s, 1, Len(s) - 1)) ELSE s

\* str.strip()
Strip(s) == RStrip(LStrip(s))

\* ----------------------------------------------------------- the score file
\* A file is [exists, readable, writable, content]; content is what the text
\* parses to: a JSON array of records ("list"), a JSON object ("object"), or
\* text json.load rejects ("garbage").
ListContent(items) == [kind |-> "list", items |-> items]
ObjectContent == [kind |-> "object", items |-> <<>>]
GarbageContent == [kind |-> "garbage", items |-> <<>>]

\* score / total * 100, as the reduced fraction it denotes; 0 when total is 0
Percent(score, total) ==
    IF total > 0
    THEN LET g == Gcd(score * 100, total)
         IN  <<(score * 100) \div g, total \div g>>
    ELSE <<0, 1>>

\* round(duration, 2): milliseconds to hundredths of a second
Round2(ms) == (ms + 5) \div 10

\* datetime.now().strftime("%Y-%m-%d %H:%M:%S")
Timestamp(now) == (now * TickMs) \div 1000

\* mutant: score and total swapped
EntrySwapped(name, score, total, duration, now) ==
    [username |-> name, score |-> total, total |-> score,
     percent |-> Percent(total, score),
     duration_seconds |-> Round2(duration),
     timestamp |-> Timestamp(now)]

Entry(name, score, total, duration, now) ==
    [username |-> name, score |-> score, total |-> total,
     percent |-> Percent(score, total),
     duration_seconds |-> Round2(duration),
     timestamp |-> Timestamp(now)]

\* load_scores: the value returned (a parsed content)
LoadScores(f) ==
    IF ~f.exists THEN ListContent(<<>>)
    ELSE IF ~f.readable \/ f.content.kind = "garbage" THEN ListContent(<<>>)
    ELSE f.content

\* mutant: scores = [entry]
AppendEntryOverwrite(items, entry) == <<entry>>

\* scores.append(entry)
AppendEntry(items, entry) == Append(items, entry)

\* the write of save_score: open(filepath, 'w') and json.dump, errors swallowed
WriteScores(f, items) ==
    IF f.writable
    THEN [f EXCEPT !.exists = TRUE, !.content = ListContent(items)]
    ELSE f

\* save_score: [raised, file]; raised when scores.append fails on a non-list
SaveScore(f, name, score, total, duration, now) ==
    LET scores == LoadScores(f)
    IN  IF scores.kind # "list"
        THEN [raised |-> TRUE, file |-> f]
        ELSE [raised |-> FALSE,
              file |-> WriteScores(f, AppendEntry(scores.items,
                                    Entry(name, score, total, duration, now)))]

\* ------------------------------------------------------------------ scoring
\* mutant: ans.get(i, 0), an unanswered position counts as option 0
RECURSIVE CountCorrectDefaultZero(_, _, _)
CountCorrectDefaultZero(qs, ans, i) ==
    IF i >= Len(qs) THEN 0
    ELSE (IF Get(ans, i, 0) = qs[i + 1].answer_index THEN 1 ELSE 0)
         + CountCorrectDefaultZero(qs, ans, i + 1)

\* sum(1 for i, q in enumerate(qs) if ans.get(i, -1) == q.answer_index)
RECURSIVE CountCorrect(_, _, _)
CountCorrect(qs, ans, i) ==
    IF i >= Len(qs) THEN 0
    ELSE (IF Get(ans, i, UNSELECTED) = qs[i + 1].answer_index THEN 1 ELSE 0)
         + CountCorrect(qs, ans, i + 1)

Score(qs, ans) == CountCorrect(qs, ans, 0)

\* time.perf_counter() - self.start_time if self.start_time else 0.0
Duration(st, now) == IF st # None /\ st[1] # 0 THEN (now - st[1]) * TickMs ELSE 0

\* self.username.get().strip() or "Player"
SavedName(name) == IF Strip(name) # <<>> THEN Strip(name) ELSE Player

NoSave == [called |-> FALSE]

NoBefore == [taken |-> FALSE]

\* the session state a handler finds
Snapshot == [taken |-> TRUE, event |-> event, phase |-> phase,
             questions |-> questions,
             current_index |-> current_index, answers |-> answers,
             selected_option |-> selected_option, correct |-> correct,
             scores_file |-> scores_file, last_save |-> last_save]

\* ---------------------------------------------------------------------- Init
\* an entry an earlier run of the application left in the file
LegacyEntry == Entry(<<"A">>, 1, 1, 12, 1)

\* The states quiz_scores.json can be found in: absent (in a directory that
\* can or cannot be written), a list of entries, a JSON object, unparseable
\* text, and a list the process may not read.
InitFiles ==
    {[exists |-> FALSE, readable |-> TRUE, writable |-> w, content |-> GarbageContent]
        : w \in BOOLEAN}
    \cup
    {[exists |-> TRUE, readable |-> TRUE, writable |-> w,
      content |-> ListContent(<<LegacyEntry>>)] : w \in BOOLEAN}
    \cup
    {[exists |-> TRUE, readable |-> TRUE, writable |-> TRUE, content |-> c] :
        c \in {ObjectContent, GarbageContent}}
    \cup
    {[exists |-> TRUE, readable |-> FALSE, writable |-> TRUE,
      content |-> ListContent(<<LegacyEntry>>)]}

Init ==
    /\ \E qs \in SuppliedQuestions : questions \in Shuffle(qs)
    /\ current_index = 0
    /\ correct = 0
    /\ username = <<>>
    /\ selected_option = UNSELECTED
    /\ start_time = None
    /\ answers = EmptyDict
    /\ screen = "start"
    /\ shown = 0
    /\ messagebox = ""
    /\ listbox = <<>>
    /\ scores_file \in InitFiles
    /\ clock = 1
    /\ event = "init"
    /\ phase = "none"
    /\ file_at_start = scores_file
    /\ last_save = NoSave
    /\ before = NoBefore
    /\ submitted = EmptyDict

\* ------------------------------------------------------------- leaderboard
\* key=lambda s: (-s.get("percent", 0), s.get("duration_seconds", 0)):
\* a sorts strictly before b
KeyLess(a, b) ==
    \/ a.percent[1] * b.percent[2] > b.percent[1] * a.percent[2]
    \/ /\ a.percent[1] * b.percent[2] = b.percent[1] * a.percent[2]
       /\ a.duration_seconds < b.duration_seconds

\* mutant: e goes in front of the elements with its key
RECURSIVE InsertSortedUnstable(_, _)
InsertSortedUnstable(s, e) ==
    IF s = <<>> THEN <<e>>
    ELSE IF ~KeyLess(Head(s), e) THEN <<e>> \o s
    ELSE <<Head(s)>> \o InsertSortedUnstable(Tail(s), e)

\* sorted() is stable: e goes behind every element that does not sort after it
RECURSIVE InsertSorted(_, _)
InsertSorted(s, e) ==
    IF s = <<>> THEN <<e>>
    ELSE IF KeyLess(e, Head(s)) THEN <<e>> \o s
    ELSE <<Head(s)>> \o InsertSorted(Tail(s), e)

RECURSIVE SortedFrom(_, _)
SortedFrom(acc, items) ==
    IF items = <<>> THEN acc
    ELSE SortedFrom(InsertSorted(acc, Head(items)), Tail(items))

Sorted(items) == SortedFrom(<<>>, items)

\* scores_sorted[:25]
Rank(items, limit) ==
    LET s == Sorted(items)
    IN  SubSeq(s, 1, IF Len(s) < limit THEN Len(s) ELSE limit)

\* ----------------------------------------------------------------- handlers
\* mutant: the sentinel passes the check
UnselectedMutant(choice) == choice < UNSELECTED

\* if choice < 0: no option is selected
Unselected(choice) == choice < 0

\* mutant: self.correct += sum(...)
FinalScoreAdds(old, qs, ans) == old + Score(qs, ans)

\* self.correct = sum(...)
FinalScore(old, qs, ans) == Score(qs, ans)

\* mutant: a quiz is taken to have at least one question
TotalAtLeastOne(qs) == Max(Len(qs), 1)

\* total = len(self.questions)
Total(qs) == Len(qs)

\* mutant: the answer goes to the 1-based position
RecordAnswerOneBased(ans, i, choice) == Put(ans, i + 1, choice)

\* self.answers[self.current_index] = choice
RecordAnswer(ans, i, choice) == Put(ans, i, choice)

\* mutant: the position advances by two
NextIndexSkipping(i) == i + 2

\* self.current_index += 1
NextIndex(i) == i + 1

\* mutant: no clamp
PrevIndexNoClamp(i) == i - 1

\* self.current_index -= 1; if self.current_index < 0: self.current_index = 0
PrevIndex(i) == Max(i - 1, 0)

\* mutant: the screen is built with nothing selected
PreselectNothing(ans, i) == UNSELECTED

\* mutant: the answer of the position before is pre-selected
PreselectNeighbour(ans, i) == Get(ans, i - 1, UNSELECTED)

\* self.selected_option.set(self.answers.get(self.current_index, -1))
Preselect(ans, i) == Get(ans, i, UNSELECTED)

\* The readings time.perf_counter() can give after reading t: time passes
\* between and inside callbacks, and only _start_quiz and _finish_quiz look.
Later(t) == t..(MaxClock + 1)

\* _build_start_screen: _clear() and the start widgets
BuildStartScreen ==
    /\ screen' = "start"
    /\ shown' = 0
    /\ listbox' = <<>>

\* _finish_quiz, run with self.correct = c, self.answers = ans,
\* self.start_time = st and self.username = name.  When save_score raises, the handler stops before
\* _clear(): the widgets stay as they were.
FinishQuiz(c, ans, st, name) ==
    LET score == FinalScore(c, questions, ans)
        total == Total(questions)
        duration == Duration(st, clock')
        r == SaveScore(scores_file, SavedName(name), score, total, duration, clock')
    IN  /\ correct' = score
        /\ last_save' = [username |-> SavedName(name), score |-> score, total |-> total,
                         duration |-> duration, raised |-> r.raised,
                         called |-> TRUE, loaded |-> LoadScores(scores_file)]
        /\ scores_file' = r.file
        /\ IF r.raised
           THEN /\ UNCHANGED <<screen, shown, listbox>>
                /\ phase' = "failed"
           ELSE /\ screen' = "results"
                /\ shown' = 0
                /\ listbox' = <<>>
                /\ phase' = "finished"

\* _build_question_screen, run with self.current_index = idx and
\* self.correct = c; t is the last clock reading made before it
BuildQuestionScreen(idx, c, ans, st, name, t) ==
    IF idx >= Len(questions)
    THEN /\ Len(LoadScores(scores_file).items) < MaxEntries
         /\ idx <= Len(questions) + MaxOver
         /\ \E now \in Later(t) : clock' = now
         /\ FinishQuiz(c, ans, st, name)
         /\ selected_option' = selected_option
    ELSE /\ screen' = "question"
         /\ shown' = idx
         /\ listbox' = <<>>
         /\ selected_option' = Preselect(ans, idx)
         /\ phase' = "running"
         /\ clock' = t
         /\ correct' = c
         /\ UNCHANGED <<scores_file, last_save>>

\* typing into the name Entry of the start screen
TypeName ==
    /\ screen = "start"
    /\ messagebox = ""
    /\ \E n \in Names : username' = n
    /\ event' = "type"
    /\ UNCHANGED <<questions, current_index, correct, selected_option, start_time,
                   answers, screen, shown, messagebox, listbox, scores_file, clock,
                   phase, file_at_start, last_save, submitted>>
    /\ before' = NoBefore

\* mutant: the answers of the session before stay
AnswersKept == answers

\* self.answers = {}
AnswersCleared == EmptyDict

\* _start_quiz: "Start Quiz" on the start screen, "Play Again" on the results
StartQuiz ==
    /\ screen \in {"start", "results"}
    /\ messagebox = ""
    /\ username' = IF Strip(username) = <<>> THEN Player ELSE username
    /\ current_index' = 0
    /\ answers' = AnswersCleared
    /\ \E now \in Later(clock) : start_time' = <<now>>
    /\ BuildQuestionScreen(0, 0, answers', start_time', username', start_time'[1])
    /\ event' = "start"
    /\ before' = NoBefore
    /\ submitted' = EmptyDict
    /\ file_at_start' = scores_file
    /\ UNCHANGED <<questions, messagebox>>

\* history: the user chose option o while one of the positions ps was on
\* screen; what was submitted there stands only if it was o
Forget(d, ps, o) == [k \in {j \in DOMAIN d : j \notin ps \/ d[j] = o} |-> d[k]]

\* clicking a Radiobutton of the question screen
SelectOption ==
    /\ screen = "question"
    /\ messagebox = ""
    /\ \E o \in 0..(Len(questions[shown + 1].options) - 1) : selected_option' = o
    /\ event' = "select"
    /\ submitted' = Forget(submitted, {shown, current_index}, selected_option')
    /\ UNCHANGED <<questions, current_index, correct, username, start_time,
                   answers, screen, shown, messagebox, listbox, scores_file, clock,
                   phase, file_at_start, last_save>>
    /\ before' = NoBefore

\* _submit_answer
SubmitAnswerHandler ==
    IF Unselected(selected_option)
    THEN /\ messagebox' = "Select an option"
         /\ UNCHANGED <<current_index, correct, selected_option, answers, screen,
                        shown, listbox, scores_file, clock, phase, last_save,
                        submitted>>
    ELSE /\ answers' = RecordAnswer(answers, current_index, selected_option)
         /\ current_index' = NextIndex(current_index)
         /\ BuildQuestionScreen(current_index', correct, answers', start_time,
                                username, clock)
         /\ submitted' = Put(submitted, current_index, selected_option)
         /\ UNCHANGED messagebox

\* "Submit" on the question screen
SubmitAnswer ==
    /\ screen = "question"
    /\ messagebox = ""
    /\ SubmitAnswerHandler
    /\ event' = "submit"
    /\ before' = Snapshot
    /\ UNCHANGED <<questions, username, start_time, file_at_start>>

\* the OK button of the messagebox
DismissMessage ==
    /\ messagebox # ""
    /\ messagebox' = ""
    /\ event' = "ok"
    /\ UNCHANGED <<questions, current_index, correct, username, selected_option,
                   start_time, answers, screen, shown, listbox, scores_file, clock,
                   phase, file_at_start, last_save, submitted>>
    /\ before' = NoBefore

\* _previous_question
PreviousQuestionHandler ==
    /\ answers' = RecordAnswer(answers, current_index, selected_option)
    /\ current_index' = PrevIndex(current_index)
    /\ BuildQuestionScreen(current_index', correct, answers', start_time, username,
                           clock)
    /\ event' = "previous"
    /\ before' = Snapshot
    /\ UNCHANGED <<questions, username, start_time, messagebox, file_at_start,
                   submitted>>

\* "Previous": the button is packed only when the screen is built at a
\* position > 0
PreviousQuestion ==
    /\ screen = "question"
    /\ shown > 0
    /\ messagebox = ""
    /\ PreviousQuestionHandler

\* mutant: Quit saves the attempt as it stands
QuitSaving ==
    /\ screen = "question"
    /\ messagebox = ""
    /\ BuildStartScreen
    /\ event' = "quit"
    /\ phase' = "abandoned"
    /\ scores_file' = SaveScore(scores_file, SavedName(username),
                                Score(questions, answers), Len(questions), 0,
                                clock).file
    /\ UNCHANGED <<questions, current_index, correct, username, selected_option,
                   start_time, answers, messagebox, clock, file_at_start, last_save>>
    /\ before' = NoBefore
    /\ submitted' = EmptyDict

\* "Quit" on the question screen
Quit ==
    /\ screen = "question"
    /\ messagebox = ""
    /\ BuildStartScreen
    /\ event' = "quit"
    /\ phase' = "abandoned"
    /\ UNCHANGED <<questions, current_index, correct, username, selected_option,
                   start_time, answers, messagebox, scores_file, clock,
                   file_at_start, last_save>>
    /\ before' = NoBefore
    /\ submitted' = EmptyDict

\* "Home" on the results screen, "Back" on the leaderboard
Home ==
    /\ screen \in {"results", "leaderboard"}
    /\ BuildStartScreen
    /\ event' = "home"
    /\ UNCHANGED <<questions, current_index, correct, username, selected_option,
                   start_time, answers, messagebox, scores_file, clock,
                   phase, file_at_start, last_save, submitted>>
    /\ before' = NoBefore

\* _show_leaderboard.  sorted() over a dict iterates its keys, and str has no
\* .get: the handler raises after the title is packed and before the Back
\* button is.
ShowLeaderboard ==
    /\ screen \in {"start", "results"}
    /\ messagebox = ""
    /\ LET scores == LoadScores(scores_file)
       IN  IF scores.kind = "list"
           THEN /\ screen' = "leaderboard"
                /\ listbox' = Rank(scores.items, LeaderboardLimit)
           ELSE /\ screen' = "leaderboard_title"
                /\ listbox' = <<>>
    /\ shown' = 0
    /\ event' = "leaderboard"
    /\ UNCHANGED <<questions, current_index, correct, username, selected_option,
                   start_time, answers, messagebox, scores_file, clock,
                   phase, file_at_start, last_save, submitted>>
    /\ before' = NoBefore

\* _previous_question called where no button offers it (the handler as an
\* operation of the controller)
PreviousQuestionCall ==
    /\ screen = "question"
    /\ shown = 0
    /\ messagebox = ""
    /\ PreviousQuestionHandler

\* _finish_quiz called again on a completed session (position >= N)
FinishQuizCall ==
    /\ current_index >= Len(questions)
    /\ messagebox = ""
    /\ screen # "leaderboard_title"
    /\ Len(LoadScores(scores_file).items) < MaxEntries
    /\ \E now \in Later(clock) : clock' = now
    /\ FinishQuiz(correct, answers, start_time, username)
    /\ event' = "finish"
    /\ before' = Snapshot
    /\ UNCHANGED <<questions, current_index, username, selected_option, start_time,
                   answers, messagebox, file_at_start, submitted>>

Next ==
    \/ TypeName
    \/ StartQuiz
    \/ SelectOption
    \/ SubmitAnswer
    \/ DismissMessage
    \/ PreviousQuestion
    \/ Quit
    \/ Home
    \/ ShowLeaderboard

Spec == Init /\ [][Next]_vars

\* the controller's operations called directly as well as through the buttons
NextApi ==
    \/ Next
    \/ PreviousQuestionCall
    \/ FinishQuizCall

SpecApi == Init /\ [][NextApi]_vars

\* ------------------------------------------------- the leaderboard on its own
\* (score, total, duration in ms) of the attempts earlier runs stored:
\* 80% in 10 s, 90% in 5 s, 90% in 3 s, 80% in 3 s
RankKeys == << <<4, 5, 10000>>, <<9, 10, 5000>>, <<9, 10, 3000>>, <<4, 5, 3000>> >>

\* the entry save_score stored i seconds after the first one
StoredEntry(i, key) == Entry(<<"A">>, key[1], key[2], key[3], 1000 * i)

\* every list of up to MaxShort entries
ShortInputs ==
    UNION {{[i \in 1..n |-> StoredEntry(i, RankKeys[f[i]])] :
                f \in [1..n -> 1..Len(RankKeys)]} : n \in 0..MaxShort}

\* lists about as long as the leaderboard, the keys repeating in a pattern
LongInputs ==
    {[i \in 1..n |-> StoredEntry(i, RankKeys[((a * i + b) % Len(RankKeys)) + 1])] :
        n \in (LeaderboardLimit - 1)..(LeaderboardLimit + MaxBeyond),
        a \in 0..(Len(RankKeys) - 1), b \in 0..(Len(RankKeys) - 1)}

RankFiles ==
    {[exists |-> TRUE, readable |-> TRUE, writable |-> TRUE,
      content |-> ListContent(items)] : items \in ShortInputs \cup LongInputs}

\* the application started on a score file earlier runs have filled
InitRank ==
    /\ \E qs \in SuppliedQuestions : questions \in Shuffle(qs)
    /\ current_index = 0
    /\ correct = 0
    /\ username = <<>>
    /\ selected_option = UNSELECTED
    /\ start_time = None
    /\ answers = EmptyDict
    /\ screen = "start"
    /\ shown = 0
    /\ messagebox = ""
    /\ listbox = <<>>
    /\ scores_file \in RankFiles
    /\ clock = 1
    /\ event = "init"
    /\ phase = "none"
    /\ file_at_start = scores_file
    /\ last_save = NoSave
    /\ before = NoBefore
    /\ submitted = EmptyDict

\* "Leaderboard" on the start screen and "Back" on the leaderboard
NextRank ==
    \/ ShowLeaderboard
    \/ Home

SpecRank == InitRank /\ [][NextRank]_vars

\* ===================================================================== claims
N == Len(questions)

\* count(i in [0, N) where answers.get(i) == question[i].answer_index)
NumCorrect(qs, ans) ==
    Cardinality({i \in 0..(Len(qs) - 1) :
                    i \in DOMAIN ans /\ ans[i] >= 0 /\ ans[i] = qs[i + 1].answer_index})

\* every answers mapping over the positions 0..N (N is one past the last)
AnswerDicts == UNION {[S -> UNSELECTED..(NumOptions - 1)] : S \in SUBSET (0..N)}

AnswerIndexes == [i \in 1..N |-> questions[i].answer_index]

IsPrefix(a, b) == Len(a) <= Len(b) /\ SubSeq(b, 1, Len(a)) = a

\* the handler that ran last reached _finish_quiz and called save_score
JustSaved ==
    /\ last_save.called
    /\ event \in {"start", "submit", "previous"}
    /\ phase \in {"finished", "failed"}

\* C1: the current position always satisfies 0 <= position <= N.
PositionInRange == 0 <= current_index /\ current_index <= N

\* C2: a submit with nothing selected reports the validation failure and leaves
\* position, answers and the score file as they were.
SubmitUnselectedRejected ==
    (event = "submit" /\ before.selected_option < 0) =>
        /\ messagebox = "Select an option"
        /\ current_index = before.current_index
        /\ answers = before.answers
        /\ scores_file = before.scores_file
        /\ selected_option = before.selected_option
        /\ correct = before.correct
        /\ last_save = before.last_save
        /\ screen = "question"

\* C2 witness: the rejected submit happened at position 1, with an answer recorded
SubmitUnselectedSeen ==
    /\ event = "submit"
    /\ before.selected_option < 0
    /\ before.current_index = 1
    /\ 0 \in DOMAIN before.answers
    /\ messagebox # ""

\* C3: a submit of option k at position p < N records answers[p] = k, changes no
\* other entry and moves to p + 1; at p + 1 = N the score is computed and the
\* attempt handed to save_score in the same step (the Results screen follows
\* unless save_score raised), otherwise the session stays in progress at p + 1.
SubmitRecordsAndAdvances ==
    (event = "submit" /\ before.selected_option >= 0 /\ before.current_index < N) =>
        LET p == before.current_index
            k == before.selected_option
        IN  /\ DOMAIN answers = DOMAIN before.answers \cup {p}
            /\ answers[p] = k
            /\ \A i \in DOMAIN before.answers \ {p} : answers[i] = before.answers[i]
            /\ current_index = p + 1
            /\ IF p + 1 = N
               THEN /\ phase \in {"finished", "failed"}
                    /\ correct = NumCorrect(questions, answers)
                    /\ last_save.called
                    /\ last_save.score = correct
                    /\ last_save.total = N
                    /\ (phase = "finished") = (~last_save.raised)
                    /\ phase = "finished" => screen = "results"
               ELSE /\ phase = "running"
                    /\ screen = "question"
                    /\ shown = p + 1
                    /\ scores_file = before.scores_file
                    /\ last_save = before.last_save

\* C3 witness: the submit at the last of two positions completed the session
SubmitCompletedSeen ==
    /\ event = "submit"
    /\ before.selected_option >= 0
    /\ N = 2
    /\ before.current_index = 1
    /\ phase = "finished"

\* C4: the score is the number of positions whose recorded answer equals the
\* question's answer index; an absent or unselected position never counts; answer
\* indices [1, 0] with answers {0: 1, 1: 1} give 1 of 2.
ScoreIsNumberCorrect ==
    /\ event = "init" =>
          \A ans \in AnswerDicts : Score(questions, ans) = NumCorrect(questions, ans)
    /\ phase \in {"finished", "failed"} => correct = NumCorrect(questions, answers)
    /\ (/\ phase \in {"finished", "failed"}
        /\ AnswerIndexes = <<1, 0>>
        /\ answers = (0 :> 1 @@ 1 :> 1))
       => (correct = 1 /\ last_save.score = 1 /\ last_save.total = 2)

\* C4 witness: the example session finished
ScoreExampleSeen ==
    /\ phase = "finished"
    /\ AnswerIndexes = <<1, 0>>
    /\ answers = (0 :> 1 @@ 1 :> 1)
    /\ correct = 1

\* C5: after finish 0 <= score <= total = N, and the entry handed to the score
\* file carries this score and total.
ScoreWithinTotal ==
    /\ last_save.called =>
          /\ 0 <= last_save.score
          /\ last_save.score <= last_save.total
          /\ last_save.total = N
    /\ phase \in {"finished", "failed"} =>
          /\ correct = last_save.score
          /\ 0 <= correct
          /\ correct <= N
    /\ (phase = "finished" /\ scores_file.writable) =>
          /\ scores_file.content.kind = "list"
          /\ scores_file.content.items # <<>>
          /\ LET e == scores_file.content.items[Len(scores_file.content.items)]
             IN  e.score = correct /\ e.total = N

\* C5 witness: a two-question session finished with one correct answer, stored
ScoreStoredSeen ==
    /\ phase = "finished"
    /\ scores_file.writable
    /\ N = 2
    /\ correct = 1

\* C6: once option k is submitted at a position i of the quiz, every later
\* display of i shows k pre-selected, until the user chooses another option at i.
AnswerRetention ==
    \A i \in DOMAIN submitted \cap (0..(N - 1)) :
        /\ Get(answers, i, UNSELECTED) = submitted[i]
        /\ (screen = "question" /\ phase = "running" /\ shown = i)
              => selected_option = submitted[i]

\* C6 witness: the user went back to a position where an option was submitted
SubmittedShownAgain ==
    /\ event = "previous"
    /\ screen = "question"
    /\ phase = "running"
    /\ shown \in DOMAIN submitted
    /\ selected_option = submitted[shown]

\* C7 as claimed: go_previous at position 0 leaves position and answers as they
\* were.
PreviousAtZeroNoOp ==
    (event = "previous" /\ before.current_index = 0) =>
        /\ current_index = 0
        /\ answers = before.answers

\* C7 amended: go_previous at position 0 keeps the position at 0 and records the
\* current selection for position 0; nothing else changes.
PreviousAtZeroRecordsOnly ==
    (event = "previous" /\ before.current_index = 0) =>
        /\ current_index = 0
        /\ DOMAIN answers = DOMAIN before.answers \cup {0}
        /\ answers[0] = before.selected_option
        /\ \A i \in DOMAIN before.answers \ {0} : answers[i] = before.answers[i]
        /\ selected_option = before.selected_option
        /\ screen = "question"
        /\ shown = 0
        /\ correct = before.correct
        /\ scores_file = before.scores_file
        /\ last_save = before.last_save

\* C7 witness: go_previous ran at position 0 and changed the answers
PreviousAtZeroSeen ==
    /\ event = "previous"
    /\ before.current_index = 0
    /\ before.selected_option >= 0
    /\ answers # before.answers

\* C8: finish leaves position, answers and question order alone, and a second
\* finish of the same completed session gives the same score and total.
FinishIdempotent ==
    /\ event = "finish" =>
          /\ current_index = before.current_index
          /\ answers = before.answers
          /\ questions = before.questions
          /\ correct = NumCorrect(questions, answers)
          /\ last_save.score = correct
          /\ last_save.total = N
    /\ (event = "finish" /\ before.phase \in {"finished", "failed"}) =>
          /\ correct = before.correct
          /\ last_save.score = before.last_save.score
          /\ last_save.total = before.last_save.total

\* C8 witness: finish ran twice in a row on a two-question session
FinishTwiceSeen ==
    /\ event = "finish"
    /\ before.event = "finish"
    /\ N = 2
    /\ correct = 1

\* C9: a session left by Quit writes nothing: from its start to the next start
\* the score file is what it was when the session started.
QuitPersistsNothing ==
    /\ phase \in {"running", "abandoned", "failed"} => scores_file = file_at_start
    /\ event = "quit" => (phase = "abandoned" /\ screen = "start")

\* C9 witness: Quit at position 1, after an answer was recorded
QuitSeen ==
    /\ event = "quit"
    /\ current_index = 1
    /\ 0 \in DOMAIN answers
    /\ scores_file.writable
    /\ scores_file.readable

\* C10 as claimed, for the saves that return: load after save gives what load
\* gave before, followed by one new entry with the saved username, score, total.
SaveThenLoadAppends ==
    (JustSaved /\ ~last_save.raised) =>
        LET loaded == last_save.loaded
            after == LoadScores(scores_file)
        IN  /\ after.kind = "list"
            /\ Len(after.items) = Len(loaded.items) + 1
            /\ IsPrefix(loaded.items, after.items)
            /\ after.items[Len(after.items)].username = last_save.username
            /\ after.items[Len(after.items)].score = last_save.score
            /\ after.items[Len(after.items)].total = last_save.total

\* C10 amended: when the file can be read and the write succeeds, load after
\* save gives what load gave before followed by one new entry with the saved
\* username, score and total; otherwise load gives what it gave before; no entry
\* load returned is ever altered or removed.
SaveAppendsWhenWritten ==
    /\ JustSaved =>
          LET loaded == last_save.loaded
              after == LoadScores(scores_file)
          IN  IF ~last_save.raised /\ scores_file.writable /\ scores_file.readable
              THEN /\ after.kind = "list"
                   /\ Len(after.items) = Len(loaded.items) + 1
                   /\ IsPrefix(loaded.items, after.items)
                   /\ after.items[Len(after.items)].username = last_save.username
                   /\ after.items[Len(after.items)].score = last_save.score
                   /\ after.items[Len(after.items)].total = last_save.total
              ELSE after = loaded
    /\ LoadScores(scores_file).kind = LoadScores(file_at_start).kind
    /\ IsPrefix(LoadScores(file_at_start).items, LoadScores(scores_file).items)

\* C10 witness: a save appended to a file that already held an entry
SaveAppendedSeen ==
    /\ JustSaved
    /\ ~last_save.raised
    /\ scores_file.writable
    /\ scores_file.readable
    /\ Len(last_save.loaded.items) = 1
    /\ Len(LoadScores(scores_file).items) = 2

\* C11 as claimed: every call of load_scores (by _show_leaderboard, by
\* save_score) returns a sequence, and an empty one when the file is absent,
\* unreadable or does not hold a list of score records.
LoadReturnsSequence ==
    /\ event = "leaderboard" =>
          /\ LoadScores(scores_file).kind = "list"
          /\ (\/ ~scores_file.exists
              \/ ~scores_file.readable
              \/ scores_file.content.kind # "list")
             => (LoadScores(scores_file).items = <<>> /\ listbox = <<>>)
          /\ screen = "leaderboard"
    /\ last_save.called => last_save.loaded.kind = "list"

\* C12 as claimed: save_score returns to _finish_quiz whatever the score file
\* holds, and the Results screen is built after every finish.
SaveNeverRaises ==
    JustSaved =>
        /\ ~last_save.raised
        /\ phase = "finished"
        /\ screen = "results"

\* a ranks ahead of b: higher percent, or the same percent in less time
RanksAhead(a, b) ==
    \/ a.percent[1] * b.percent[2] > b.percent[1] * a.percent[2]
    \/ /\ a.percent = b.percent
       /\ a.duration_seconds < b.duration_seconds

SameRank(a, b) == a.percent = b.percent /\ a.duration_seconds = b.duration_seconds

\* the place of entry i of input: behind every entry that ranks ahead of it and
\* every earlier entry of its rank
Place(input, i) ==
    1 + Cardinality({j \in 1..Len(input) :
                        \/ RanksAhead(input[j], input[i])
                        \/ SameRank(input[j], input[i]) /\ j < i})

\* C13: the leaderboard of a stored list has every entry at its place (percent
\* descending, then duration ascending, then append order), cut after the first
\* 25, and shows nothing else; (80,10),(90,5),(90,3) rank as (90,3),(90,5),(80,10).
RankingOrdered ==
    (event = "leaderboard" /\ LoadScores(scores_file).kind = "list") =>
        LET input == LoadScores(scores_file).items
        IN  /\ Len(listbox) = IF Len(input) < 25 THEN Len(input) ELSE 25
            /\ \A i \in 1..Len(input) :
                  Place(input, i) <= 25 => listbox[Place(input, i)] = input[i]
            /\ \A k \in 1..Len(listbox) :
                  \E i \in 1..Len(input) : Place(input, i) = k /\ listbox[k] = input[i]
            /\ (/\ Len(input) = 3
                /\ [i \in 1..3 |-> <<input[i].percent, input[i].duration_seconds>>]
                     = << <<(<<80, 1>>), 1000>>, <<(<<90, 1>>), 500>>, <<(<<90, 1>>), 300>> >>)
               => listbox = <<input[3], input[2], input[1]>>

\* C13 witness: a list longer than 25 was ranked: cut to 25, reordered, and with
\* two entries of one rank next to each other
RankTruncatedSeen ==
    /\ event = "leaderboard"
    /\ Len(LoadScores(scores_file).items) > 25
    /\ Len(listbox) = 25
    /\ listbox # SubSeq(LoadScores(scores_file).items, 1, 25)
    /\ \E k \in 1..24 : SameRank(listbox[k], listbox[k + 1])

\* C14 as claimed: after a session has ended, starting the next one can put the
\* questions (two or more) in an order other than the one they had.
StartReshuffles ==
    (/\ phase \in {"finished", "abandoned"}
     /\ screen \in {"start", "results"}
     /\ messagebox = ""
     /\ N >= 2)
    => ENABLED (StartQuiz /\ questions' # questions)

\* C15: a start leaves position 0, no recorded answer, score 0 and nothing
\* pre-selected; submit and go_previous add to the answers only the entry of the
\* position they leave; the questions are the supplied ones, each exactly once,
\* and submit and go_previous leave their order alone.
StartResets ==
    /\ event = "start" =>
          /\ current_index = 0
          /\ answers = EmptyDict
          /\ correct = 0
          /\ (screen = "question" /\ phase = "running") =>
                (shown = 0 /\ selected_option = UNSELECTED)
    /\ event \in {"submit", "previous"} =>
          /\ DOMAIN answers \subseteq DOMAIN before.answers \cup {before.current_index}
          /\ \A i \in DOMAIN before.answers \ {before.current_index} :
                i \in DOMAIN answers /\ answers[i] = before.answers[i]
          /\ questions = before.questions
    /\ \E qs \in SuppliedQuestions :
          /\ Len(qs) = N
          /\ \A j \in 1..N : Cardinality({i \in 1..N : questions[i] = qs[j]}) = 1

\* C15 witness: a session started after one that finished with both answers right
StartAfterFinishedSeen ==
    /\ event = "start"
    /\ phase = "running"
    /\ N = 2
    /\ last_save.called
    /\ last_save.score = 2
    /\ answers = EmptyDict
    /\ selected_option = UNSELECTED

\* the last handler was go_previous, run on a question screen that had just been
\* built for its position (by submit or go_previous): nothing was reselected
LeftUntouched ==
    /\ event = "previous"
    /\ before.event \in {"submit", "previous"}
    /\ before.phase = "running"

\* C16 as claimed: go_previous records the displayed selection for the position
\* it leaves, and a position that held an answer and is left again without
\* reselecting holds the unselected sentinel afterwards.
PreviousLosesAnswer ==
    /\ event = "previous" =>
          /\ before.current_index \in DOMAIN answers
          /\ answers[before.current_index] = before.selected_option
    /\ (LeftUntouched /\ Get(before.answers, before.current_index, UNSELECTED) >= 0) =>
          Get(answers, before.current_index, UNSELECTED) = UNSELECTED

\* C16 amended: go_previous records the displayed selection for the position it
\* leaves, the sentinel included, and changes no other entry; a position that
\* held an answer is displayed with it pre-selected, so it is never overwritten
\* with the sentinel, and left without reselecting it keeps the answer it had.
PreviousKeepsAnswer ==
    /\ event = "previous" =>
          LET p == before.current_index
          IN  /\ p \in DOMAIN answers
              /\ answers[p] = before.selected_option
              /\ DOMAIN answers = DOMAIN before.answers \cup {p}
              /\ \A i \in DOMAIN before.answers \ {p} : answers[i] = before.answers[i]
              /\ Get(before.answers, p, UNSELECTED) >= 0 => answers[p] >= 0
    /\ LeftUntouched =>
          answers[before.current_index]
             = Get(before.answers, before.current_index, UNSELECTED)

\* C16 witness: position 1 held an answer, was displayed again and left by
\* go_previous without reselecting
PreviousKeptAnswerSeen ==
    /\ LeftUntouched
    /\ before.current_index = 1
    /\ current_index = 0
    /\ Get(before.answers, 1, UNSELECTED) >= 0
    /\ answers[1] = before.answers[1]

\* C17 as claimed: once a session has completed (its position reached N and
\* _finish_quiz ran), no step but a start is a submit or a go_previous, and
\* position, answers and score stay as they are until the next start.
FinishedIsFinal ==
    [][(phase \in {"finished", "failed"} /\ event' # "start") =>
          /\ event' \notin {"submit", "previous"}
          /\ current_index' = current_index
          /\ answers' = answers
          /\ correct' = correct]_vars

\* the entries the score file holds
StoredEntries ==
    IF scores_file.exists /\ scores_file.content.kind = "list"
    THEN Range(scores_file.content.items)
    ELSE {}

\* a start with no questions runs _finish_quiz at once: no question screen, score
\* 0 of 0 handed to save_score
ZeroQuizCompletes ==
    (event = "start" /\ N = 0) =>
        /\ screen # "question"
        /\ phase \in {"finished", "failed"}
        /\ current_index = 0
        /\ correct = 0
        /\ last_save.called
        /\ last_save.score = 0
        /\ last_save.total = 0
        /\ Percent(last_save.score, last_save.total) = <<0, 1>>

\* C18 as claimed: a quiz with no questions completes on start with score 0,
\* total 0, percent 0, and every stored entry has score >= 0 and total > 0.
ZeroQuizTotalsPositive ==
    /\ ZeroQuizCompletes
    /\ \A e \in StoredEntries : e.score >= 0 /\ e.total > 0

\* C18 amended: a quiz with no questions completes on start with score 0, total
\* 0, percent 0, and this attempt is stored like any other; every stored entry
\* has 0 <= score <= total, and total = 0 only for the attempts of a quiz with no
\* questions, which have percent 0.
ZeroQuizStoredWithZeroTotal ==
    /\ ZeroQuizCompletes
    /\ (event = "start" /\ N = 0 /\ phase = "finished" /\ scores_file.writable) =>
          LET e == scores_file.content.items[Len(scores_file.content.items)]
          IN  e.score = 0 /\ e.total = 0 /\ e.percent = <<0, 1>>
    /\ \A e \in StoredEntries :
          /\ 0 <= e.score
          /\ e.score <= e.total
          /\ e.total = 0 => (N = 0 /\ e.percent = <<0, 1>>)
          /\ e.total > 0 => e.percent[1] * e.total = 100 * e.score * e.percent[2]

\* C18 witness: the attempt of a quiz with no questions was stored
ZeroQuizStoredSeen ==
    /\ event = "start"
    /\ N = 0
    /\ phase = "finished"
    /\ \E e \in StoredEntries : e.total = 0 /\ e.score = 0 /\ e.percent = <<0, 1>>

\* C19: when a session has completed, every position 0..N-1 has a recorded answer
\* that is an option index of its question, never the unselected sentinel.
CompletedAllAnswered ==
    phase \in {"finished", "failed"} =>
        \A i \in 0..(N - 1) :
            /\ i \in DOMAIN answers
            /\ answers[i] >= 0
            /\ answers[i] < Len(questions[i + 1].options)

\* C19 witness: a session completed by the submit at position 1, where
\* go_previous had recorded the unselected sentinel before
SentinelReplacedSeen ==
    /\ phase = "finished"
    /\ event = "submit"
    /\ N = 2
    /\ before.current_index = 1
    /\ 1 \in DOMAIN before.answers
    /\ before.answers[1] = UNSELECTED
    /\ answers[1] >= 0

\* C20 as claimed: with a file that can be read and written, a session stores
\* nothing while it runs or when it is abandoned, and once it has completed the
\* file holds exactly one entry more than when the session started.
CompletedPersistedOnce ==
    (scores_file.readable /\ scores_file.writable) =>
        /\ phase \in {"none", "running", "abandoned"} => scores_file = file_at_start
        /\ phase \in {"finished", "failed"} =>
              /\ LoadScores(scores_file).kind = "list"
              /\ Len(LoadScores(scores_file).items)
                    = Len(LoadScores(file_at_start).items) + 1
              /\ IsPrefix(LoadScores(file_at_start).items, LoadScores(scores_file).items)

====
